---- MODULE Spec2Model ----
(***************************************************************************)
(* Heimdall (src/heimdall/cmd/heimdall.go): the HTTP handlers over the     *)
(* five SQLite tables certs, totp, events, settings and whitelist.         *)
(*                                                                         *)
(* Each handler is one action; its SQL statements are operators on the     *)
(* tables.  Under Spec requests run one at a time, each to completion.     *)
(* Under the specifications of the concurrent requests every SQL statement *)
(* of a handler is a step of its own, and the steps of the requests in     *)
(* flight interleave.                                                      *)
(***************************************************************************)
EXTENDS Integers, Sequences, FiniteSets, TLC

VARIABLES
    totp,       \* table totp: set of rows [email, seed, created, updated]
    certs,      \* table certs: rows in rowid order
    events,     \* table events: rows in rowid order
    settings,   \* table settings: set of rows [key, value]
    whitelist,  \* table whitelist: set of rows [email]
    now,        \* the database clock (current_timestamp, datetime('now'))
    resp,       \* the last response sent: [op, status, body]
    inflight,   \* the request that each goroutine serves, and the place
                \* of the goroutine in its handler
    audit       \* history of the concurrent requests: listed, the number
                \* of leading rows of events that a listing of DELETE
                \* /events has returned, and lost, the number of rows that
                \* "delete from events" has deleted and no such listing
                \* had returned

vars == <<totp, certs, events, settings, whitelist, now, resp, inflight, audit>>

tables == <<totp, certs, events, settings, whitelist>>

---------------------------------------------------------------------------
(* Bounds of the model *)

\* the clock runs from 0 to MaxTime
MaxTime == 1

\* the events table holds at most MaxEvents rows
MaxEvents == 3

\* the events table of the single-user specification holds at most
\* MaxEventsOneUser rows
MaxEventsOneUser == 5

\* the events table of the paging specification holds at most
\* MaxEventsPaging rows, one more than a page
MaxEventsPaging == 26

\* the first second of the paging specification holds at most MaxBurst
\* events
MaxBurst == 2

(* Inputs *)

Emails == {"a@x.io", "b@x.io"}

Fingerprints == {"f1", "f2"}

Descriptions == {"laptop", "phone"}

Seeds == {"s1", "s2"}

\* the secret that totp.Generate returns differs from the one stored
FreshSeed(t, e) ==
    CHOOSE seed \in Seeds : \A r \in t : r.email = e => r.seed # seed

\* a path segment that is missing is the empty string (extractSegment)
EmailInputs == Emails \cup {""}

FingerprintInputs == Fingerprints \cup {""}

---------------------------------------------------------------------------
(* Values *)

\* SQL NULL in a timestamp column
Null == -1

\* Go's zero value of a string field that rows.Scan left unassigned, and
\* the rendering of a timestamp column into a string field: Scan stops at
\* the first NULL it cannot convert, the handlers ignore its error
NoTime == <<>>

ScanTime(v) == IF v = Null THEN NoTime ELSE <<v>>

\* byte order of the strings that the handlers compare with <
StrOrder == <<"", "a@x.io", "b@x.io", "laptop", "phone">>

StrRank(s) == CHOOSE i \in 1..Len(StrOrder) : StrOrder[i] = s

StrLess(a, b) == StrRank(a) < StrRank(b)

\* an empty JSON object, struct{}{}
NoBody == <<>>

Response(op, status, body) ==
    [op |-> op, status |-> status, body |-> body]

\* httputil's WithPanicHandler answers a panicking handler
PanicStatus == 500

---------------------------------------------------------------------------
(* Sequences *)

RECURSIVE SeqOfSet(_)
SeqOfSet(S) ==
    IF S = {} THEN <<>>
    ELSE LET x == CHOOSE y \in S : TRUE IN <<x>> \o SeqOfSet(S \ {x})

Range(s) == {s[i] : i \in 1..Len(s)}

\* sort.Slice by Description on fewer than 7 elements is an insertion sort,
\* which keeps the scan order of equal descriptions
RECURSIVE InsertByDesc(_, _)
InsertByDesc(c, sorted) ==
    IF sorted = <<>> THEN <<c>>
    ELSE IF StrLess(c.Description, sorted[1].Description)
         THEN <<c>> \o sorted
         ELSE <<sorted[1]>> \o InsertByDesc(c, Tail(sorted))

RECURSIVE SortByDesc(_)
SortByDesc(s) ==
    IF s = <<>> THEN <<>>
    ELSE InsertByDesc(s[Len(s)], SortByDesc(SubSeq(s, 1, Len(s) - 1)))

---------------------------------------------------------------------------
(* SQL statements *)

\* an update in place of the insert or replace: it writes the rows that
\* exist and adds none
TotpUpdateOnly(t, email, seed, ts) ==
    {IF r.email = email THEN [r EXCEPT !.seed = seed, !.updated = ts] ELSE r
       : r \in t}

\* an insert into a totp whose email is not unique
TotpInsertPlain(t, email, seed, ts) ==
    t \cup {[email |-> email, seed |-> seed, created |-> ts, updated |-> ts]}

\* insert or replace into totp (email, seed, updated) values (?, ?, datetime('now'))
\* email is unique: the row in conflict is deleted and a new row inserted,
\* whose created column takes its default, current_timestamp
TotpInsertOrReplace(t, email, seed, ts) ==
    {r \in t : r.email # email}
      \cup {[email |-> email, seed |-> seed, created |-> ts, updated |-> ts]}

\* delete from totp where email=?
TotpDelete(t, email) == {r \in t : r.email # email}

\* select ... from totp where email=?
TotpByEmail(t, email) == {r \in t : r.email = email}

\* insert into events (event, email, value) values (?, ?, ?)
\* ts takes its default, current_timestamp
EventsInsert(evs, event, email, value, ts) ==
    Append(evs, [event |-> event, email |-> email, value |-> value, ts |-> ts])

\* select ... from certs where email=?
CertsByEmail(cs, email) == SelectSeq(cs, LAMBDA c : c.email = email)

\* select ... from certs where fingerprint=?
CertsByFingerprint(cs, fp) == SelectSeq(cs, LAMBDA c : c.fingerprint = fp)

\* an update that stops at the first row of the email
CertsRevokeFirstByEmail(cs, email, ts) ==
    [i \in 1..Len(cs) |->
        IF /\ cs[i].email = email
           /\ \A j \in 1..(i - 1) : cs[j].email # email
        THEN [cs[i] EXCEPT !.revoked = ts] ELSE cs[i]]

\* an update that matches no row
CertsRevokeNone(cs, email, ts) == cs

\* update certs set revoked=datetime('now') where email=?
CertsRevokeByEmail(cs, email, ts) ==
    [i \in 1..Len(cs) |->
        IF cs[i].email = email THEN [cs[i] EXCEPT !.revoked = ts] ELSE cs[i]]

\* an update that clears the revoked column of a row that has it set
CertsToggleByFingerprint(cs, fp, ts) ==
    [i \in 1..Len(cs) |->
        IF cs[i].fingerprint = fp
        THEN [cs[i] EXCEPT !.revoked = IF cs[i].revoked = Null THEN ts ELSE Null]
        ELSE cs[i]]

\* update certs set revoked=datetime('now') where fingerprint=?
CertsRevokeByFingerprint(cs, fp, ts) ==
    [i \in 1..Len(cs) |->
        IF cs[i].fingerprint = fp THEN [cs[i] EXCEPT !.revoked = ts] ELSE cs[i]]

\* a certs whose fingerprint is not unique: no insert is in conflict
CertsInsertAccepted(cs, fp) == FALSE

\* fingerprint text not null unique: the insert of a stored fingerprint
\* is an error, which writeDatabaseByQuery turns into a panic
CertsInsertConflicts(cs, fp) == \E i \in 1..Len(cs) : cs[i].fingerprint = fp

\* an insert that leaves the desc column out
CertsInsertNoDesc(cs, email, fp, desc, ts, days) ==
    Append(cs, [email |-> email, fingerprint |-> fp, desc |-> "",
                created |-> ts, expires |-> ts + days, revoked |-> Null])

\* insert into certs (email, fingerprint, desc, expires)
\*   values (?, ?, ?, date('now','+N day'))
\* created takes its default, current_timestamp; revoked its default, null
CertsInsert(cs, email, fp, desc, ts, days) ==
    Append(cs, [email |-> email, fingerprint |-> fp, desc |-> desc,
                created |-> ts, expires |-> ts + days, revoked |-> Null])

\* the rendering of a row of certs into the handlers' cert struct, for the
\* queries whose last column is revoked
CertStruct(c) ==
    [Fingerprint |-> c.fingerprint, Created |-> <<c.created>>,
     Expires |-> <<c.expires>>, Revoked |-> ScanTime(c.revoked),
     Description |-> c.desc]

\* the cert structs of a list of rows, in the order of the rows
CertStructs(rows) == [i \in 1..Len(rows) |-> CertStruct(rows[i])]

---------------------------------------------------------------------------
(* Settings: loadSettings and storeSettings *)

\* the defaults of loadSettings (the service label is "Bifr\"ost VPN" in
\* the source)
DefaultServiceName == "Bifrost VPN"

DefaultClientLimit == 2

DefaultCertDuration == 90

\* a Go int has 64 bits: [hi, lo] is the int hi * 2^31 + lo, with
\* 0 <= lo < 2^31
GoInt(n) == [hi |-> 0, lo |-> n]

\* 2^31, the first int that has no 32 bits
TooWide == [hi |-> 1, lo |-> 0]

FitsInt32(w) == w.hi = 0

\* the ints that the settings of the model hold
SettingInts ==
    {GoInt(n) : n \in {0, 1, DefaultClientLimit, DefaultCertDuration}}
      \cup {TooWide}

\* the space-free pieces of the stored WhitelistedDomains values
Tokens == {"", "x.io", "y.io"}

DomainOrder == <<"", "x.io", "x.io y.io", "y.io">>

DomainRank(d) == CHOOSE i \in 1..Len(DomainOrder) : DomainOrder[i] = d

\* strings.Join(list, " ")
RECURSIVE JoinSpace(_)
JoinSpace(l) ==
    IF l = <<>> THEN ""
    ELSE IF Len(l) = 1 THEN l[1]
    ELSE l[1] \o " " \o JoinSpace(Tail(l))

TokenLists ==
    UNION {[1..n -> Tokens] : n \in 1..3}

\* strings.Split(v, " "): the pieces between the spaces of v, at least one
SplitSpace(v) == CHOOSE l \in TokenLists : JoinSpace(l) = v

\* sort.Strings
RECURSIVE InsertString(_, _)
InsertString(d, sorted) ==
    IF sorted = <<>> THEN <<d>>
    ELSE IF DomainRank(d) < DomainRank(sorted[1])
         THEN <<d>> \o sorted
         ELSE <<sorted[1]>> \o InsertString(d, Tail(sorted))

RECURSIVE SortStrings(_)
SortStrings(l) ==
    IF l = <<>> THEN <<>>
    ELSE InsertString(l[Len(l)], SortStrings(SubSeq(l, 1, Len(l) - 1)))

\* an int bound to the text column value is stored as its decimal text;
\* 2^31 + lo is 21474 * 10^5 + 83648 + lo
IntText(w) ==
    IF w.hi = 0 THEN ToString(w.lo)
    ELSE ToString(21474 * w.hi) \o ToString(83648 + w.lo)

\* strconv.ParseInt(v, 10, 32): an error for the text of an int that has
\* no 32 bits
ParseIntOk(v) == \E w \in SettingInts : FitsInt32(w) /\ IntText(w) = v

ParseInt(v) == (CHOOSE w \in SettingInts : FitsInt32(w) /\ IntText(w) = v).lo

\* insert or replace into settings (key, value) values (?, ?)
SettingsInsertOrReplace(tbl, k, v) ==
    {r \in tbl : r.key # k} \cup {[key |-> k, value |-> v]}

HasSetting(tbl, k) == \E r \in tbl : r.key = k

SettingValue(tbl, k) == (CHOOSE r \in tbl : r.key = k).value

\* loadSettings panics on a ClientLimit or IssuedCertDuration that does
\* not parse
LoadPanics(tbl) ==
    \E k \in {"ClientLimit", "IssuedCertDuration"} :
        HasSetting(tbl, k) /\ ~ParseIntOk(SettingValue(tbl, k))

LoadServiceName(tbl) ==
    IF HasSetting(tbl, "ServiceName") THEN SettingValue(tbl, "ServiceName")
    ELSE DefaultServiceName

LoadClientLimit(tbl) ==
    IF HasSetting(tbl, "ClientLimit")
    THEN ParseInt(SettingValue(tbl, "ClientLimit"))
    ELSE DefaultClientLimit

LoadCertDuration(tbl) ==
    IF HasSetting(tbl, "IssuedCertDuration")
    THEN ParseInt(SettingValue(tbl, "IssuedCertDuration"))
    ELSE DefaultCertDuration

LoadDomains(tbl) ==
    IF HasSetting(tbl, "WhitelistedDomains")
    THEN SortStrings(SelectSeq(SplitSpace(SettingValue(tbl, "WhitelistedDomains")),
                               LAMBDA d : d # ""))
    ELSE <<>>

\* select email from whitelist order by email, without the empty emails
RECURSIVE SortedEmails(_)
SortedEmails(S) ==
    IF S = {} THEN <<>>
    ELSE LET m == CHOOSE x \in S : \A y \in S : ~StrLess(y, x)
         IN <<m>> \o SortedEmails(S \ {m})

WhitelistEmails(wl) == SortedEmails({r.email : r \in wl})

LoadUsers(wl) == SelectSeq(WhitelistEmails(wl), LAMBDA e : e # "")

loadSettings(tbl, wl) ==
    [ServiceName |-> LoadServiceName(tbl),
     ClientLimit |-> GoInt(LoadClientLimit(tbl)),
     IssuedCertDuration |-> GoInt(LoadCertDuration(tbl)),
     WhitelistedDomains |-> LoadDomains(tbl),
     WhitelistedUsers |-> LoadUsers(wl)]

storeSettings(tbl, s) ==
    SettingsInsertOrReplace(
      SettingsInsertOrReplace(
        SettingsInsertOrReplace(
          SettingsInsertOrReplace(tbl, "ServiceName", s.ServiceName),
          "IssuedCertDuration", IntText(s.IssuedCertDuration)),
        "ClientLimit", IntText(s.ClientLimit)),
      "WhitelistedDomains", JoinSpace(s.WhitelistedDomains))

\* insert or replace into whitelist (email) values (?)
WhitelistInsertOrReplace(wl, email) ==
    {r \in wl : r.email # email} \cup {[email |-> email]}

\* a delete that matches no row
WhitelistDeleteNone(wl, email) == {r \in wl : r.email # email /\ FALSE} \cup wl

\* delete from whitelist where email=?
WhitelistDeleteRow(wl, email) == {r \in wl : r.email # email}

---------------------------------------------------------------------------
(* userHandler: GET, PUT and DELETE /user/<email> *)

\* GET /user/<email>, read from the totp rows t and the certs rows cs
UserGetResult(t, cs, e) ==
    IF e = "" THEN Response("UserGet", 400, NoBody)
    ELSE LET rows == TotpByEmail(t, e) IN
         IF rows = {} THEN Response("UserGet", 404, NoBody)
         ELSE IF Cardinality(rows) > 1 THEN Response("UserGet", 500, NoBody)
         ELSE LET u  == CHOOSE r \in rows : TRUE
                  l  == CertStructs(CertsByEmail(cs, e))
              IN Response("UserGet", 200,
                   [Email |-> e,
                    Created |-> <<u.created>>,
                    ActiveCerts |->
                      SortByDesc(SelectSeq(l, LAMBDA c : c.Revoked = NoTime)),
                    RevokedCerts |->
                      SortByDesc(SelectSeq(l, LAMBDA c : c.Revoked # NoTime))])

UserGetResp(e) == UserGetResult(totp, certs, e)

UserGet(e) ==
    /\ resp' = UserGetResp(e)
    /\ UNCHANGED <<tables, now>>

\* PUT /user/<email>: seed is the secret that totp.Generate returns; the
\* TOTPURL of the answer is the image of the key, named here by its secret
UserPut(e, seed) ==
    IF e = ""
    THEN /\ resp' = Response("UserPut", 400, NoBody)
         /\ UNCHANGED <<tables, now>>
    ELSE IF LoadPanics(settings)
    THEN /\ resp' = Response("UserPut", PanicStatus, NoBody)
         /\ UNCHANGED <<tables, now>>
    ELSE /\ totp' = TotpInsertOrReplace(totp, e, seed, now)
         /\ events' = EventsInsert(events, "TOTP set", e, "", now)
         /\ resp' = Response("UserPut", 200, [Email |-> e, TOTPURL |-> seed])
         /\ UNCHANGED <<certs, settings, whitelist, now>>

\* the fingerprints that DELETE /user/<email> reads, in scan order
UserFingerprints(cs, e) ==
    LET rows == CertsByEmail(cs, e) IN
    [i \in 1..Len(rows) |-> rows[i].fingerprint]

\* DELETE /user/<email>
UserDelete(e) ==
    IF e = ""
    THEN /\ resp' = Response("UserDelete", 400, NoBody)
         /\ UNCHANGED <<tables, now>>
    ELSE LET fps == UserFingerprints(certs, e) IN
         /\ certs' = IF Len(fps) > 0 THEN CertsRevokeByEmail(certs, e, now)
                     ELSE certs
         /\ totp' = TotpDelete(totp, e)
         /\ events' = EventsInsert(events, "user deleted", e,
                                   ToString(Len(fps)) \o " certs revoked", now)
         /\ resp' = Response("UserDelete", 200, [RevokedCerts |-> fps])
         /\ UNCHANGED <<settings, whitelist, now>>

---------------------------------------------------------------------------
(* certsHandler: GET /certs, GET /certs/<email>, POST /certs/<email> *)

\* select ... from totp as t, certs as c where t.email=c.email
CertsJoinTotp(t, cs) ==
    SelectSeq(cs, LAMBDA c : \E r \in t : r.email = c.email)

\* GET /certs: for every row of the join the loop reads u.ActiveCerts or
\* u.RevokedCerts of the outer u, which is nil (the u that the if statement
\* assigns is a new variable of the if statement): a nil dereference
CertsGetAllResp ==
    IF Len(CertsJoinTotp(totp, certs)) > 0
    THEN Response("CertsGetAll", PanicStatus, NoBody)
    ELSE Response("CertsGetAll", 200, [Certs |-> <<>>])

\* GET /certs/<email>, read from the totp rows t and the certs rows cs:
\* select ... from totp as t left join certs as c on t.email=c.email
\*   where t.email=?
CertsGetUserResult(t, cs, e) ==
    LET rows == TotpByEmail(t, e) IN
    IF rows = {}
    THEN \* no row: res.Created stays ""
         Response("CertsGetUser", 404, NoBody)
    ELSE LET u  == CHOOSE r \in rows : TRUE
             l  == CertStructs(CertsByEmail(cs, e))
         IN Response("CertsGetUser", 200,
              [Email |-> e,
               Created |-> <<u.created>>,
               ActiveCerts |->
                 SortByDesc(SelectSeq(l, LAMBDA c : c.Revoked = NoTime)),
               RevokedCerts |->
                 SortByDesc(SelectSeq(l, LAMBDA c : c.Revoked # NoTime))])

CertsGetUserResp(e) == CertsGetUserResult(totp, certs, e)

\* GET /certs/ with an empty segment is GET /certs
CertsGet(e) ==
    /\ resp' = IF e = "" THEN CertsGetAllResp ELSE CertsGetUserResp(e)
    /\ UNCHANGED <<tables, now>>

\* a request body that PopulateFromBody rejects
Malformed == [Malformed |-> TRUE]

IssueBodies ==
    {[Email |-> m, Description |-> d] : m \in Emails, d \in Descriptions \cup {""}}
      \cup {Malformed}

\* the collaborators of POST /certs/<email>: signing (LoadFromPEM,
\* CreateClientKeypair, CertFingerprint, ToPEM), the tls-auth file and the
\* .ovpn template; each failure is a panic before the first write
IssueFailures == {"none", "signing", "tlsauth", "template"}

\* a POST /certs/<email> that does not look the email up in totp
CertsPostNoLookup(e, body, fail, fp) ==
    IF \/ e = ""
       \/ body = Malformed
       \/ e # body.Email
       \/ body.Description = ""
    THEN /\ resp' = Response("CertsPost", 400, NoBody)
         /\ UNCHANGED <<tables, now>>
    ELSE IF \/ LoadPanics(settings)
            \/ fail # "none"
            \/ CertsInsertConflicts(certs, fp)
    THEN /\ resp' = Response("CertsPost", PanicStatus, NoBody)
         /\ UNCHANGED <<tables, now>>
    ELSE /\ certs' = CertsInsert(certs, e, fp, body.Description, now,
                                 LoadCertDuration(settings))
         /\ events' = EventsInsert(events, "certificate issued", e,
                                   fp \o " - " \o body.Description, now)
         /\ resp' = Response("CertsPost", 201, [OVPNDataURL |-> fp])
         /\ UNCHANGED <<totp, settings, whitelist, now>>

\* POST /certs/<email>: fp is the fingerprint of the signed certificate; the
\* OVPNDataURL of the answer carries the certificate, named here by fp
CertsPost(e, body, fail, fp) ==
    IF \/ e = ""
       \/ body = Malformed
       \/ e # body.Email
       \/ body.Description = ""
    THEN /\ resp' = Response("CertsPost", 400, NoBody)
         /\ UNCHANGED <<tables, now>>
    ELSE IF TotpByEmail(totp, e) = {}
    THEN /\ resp' = Response("CertsPost", 404, NoBody)
         /\ UNCHANGED <<tables, now>>
    ELSE IF \/ Cardinality(TotpByEmail(totp, e)) > 1
            \/ LoadPanics(settings)
            \/ fail # "none"
            \/ CertsInsertConflicts(certs, fp)
    THEN /\ resp' = Response("CertsPost", PanicStatus, NoBody)
         /\ UNCHANGED <<tables, now>>
    ELSE /\ certs' = CertsInsert(certs, e, fp, body.Description, now,
                                 LoadCertDuration(settings))
         /\ events' = EventsInsert(events, "certificate issued", e,
                                   fp \o " - " \o body.Description, now)
         /\ resp' = Response("CertsPost", 201, [OVPNDataURL |-> fp])
         /\ UNCHANGED <<totp, settings, whitelist, now>>

---------------------------------------------------------------------------
(* certHandler: GET and DELETE /cert/<fingerprint> *)

\* GET /cert/<fingerprint>, read from the certs rows cs: the columns are
\* scanned in the order email, fingerprint, created, expires, revoked, desc,
\* so a NULL in revoked leaves Description unassigned
CertGetResult(cs, fp) ==
    IF fp = "" THEN Response("CertGet", 400, NoBody)
    ELSE LET rows == CertsByFingerprint(cs, fp) IN
         IF Len(rows) = 0 THEN Response("CertGet", 404, NoBody)
         ELSE IF Len(rows) > 1 THEN Response("CertGet", 500, NoBody)
         ELSE LET c == rows[1] IN
              Response("CertGet", 200,
                [Email |-> c.email,
                 Fingerprint |-> c.fingerprint,
                 Created |-> <<c.created>>,
                 Expires |-> <<c.expires>>,
                 Revoked |-> ScanTime(c.revoked),
                 Description |-> IF c.revoked = Null THEN "" ELSE c.desc])

CertGetResp(fp) == CertGetResult(certs, fp)

CertGet(fp) ==
    /\ resp' = CertGetResp(fp)
    /\ UNCHANGED <<tables, now>>

\* a DELETE /cert/<fingerprint> that does not look the fingerprint up
\* before it writes
CertDeleteUnchecked(fp) ==
    /\ certs' = CertsRevokeByFingerprint(certs, fp, now)
    /\ events' = EventsInsert(events, "certificate revoked", "", fp, now)
    /\ resp' = Response("CertDelete", 200, NoBody)
    /\ UNCHANGED <<totp, settings, whitelist, now>>

\* DELETE /cert/<fingerprint>
CertDelete(fp) ==
    IF fp = ""
    THEN /\ resp' = Response("CertDelete", 400, NoBody)
         /\ UNCHANGED <<tables, now>>
    ELSE IF Len(CertsByFingerprint(certs, fp)) = 0
    THEN /\ resp' = Response("CertDelete", 200, NoBody)
         /\ UNCHANGED <<tables, now>>
    ELSE LET email == CertsByFingerprint(certs, fp)[1].email IN
         /\ certs' = CertsRevokeByFingerprint(certs, fp, now)
         /\ events' = EventsInsert(events, "certificate revoked", email, fp, now)
         /\ resp' = Response("CertDelete", 200, NoBody)
         /\ UNCHANGED <<totp, settings, whitelist, now>>

---------------------------------------------------------------------------
(* usersHandler: GET /users *)

\* select t.email, count(distinct c.fingerprint), count(distinct c2.fingerprint)
\*   from totp as t left join certs ... group by t.email, sorted by email
UsersGetResp ==
    LET count(e, revoked) ==
            Cardinality({c.fingerprint : c \in
                {x \in Range(certs) : x.email = e /\ (x.revoked # Null) = revoked}})
        user(e) == [Email |-> e,
                    ActiveCerts |-> count(e, FALSE),
                    RevokedCerts |-> count(e, TRUE)]
    IN Response("UsersGet", 200,
         [Users |-> LET l == SortedEmails({t.email : t \in totp}) IN
                    [i \in 1..Len(l) |-> user(l[i])]])

UsersGet ==
    /\ resp' = UsersGetResp
    /\ UNCHANGED <<tables, now>>

---------------------------------------------------------------------------
(* eventsHandler: GET and DELETE /events?before= *)

\* limit 25
PageLimit == 25

\* the text, in the layout 2006-01-02T15:04:05Z, of the second t of the
\* first minute of the clock
BeforeText(t) ==
    "1970-01-01T00:00:" \o (IF t < 10 THEN "0" ELSE "") \o ToString(t) \o "Z"

\* the seconds of a minute
BeforeTimes == 0..59

\* time.Parse("2006-01-02T15:04:05Z", before)
ParseBeforeOk(before) == \E t \in BeforeTimes : BeforeText(t) = before

ParseBefore(before) == CHOOSE t \in BeforeTimes : BeforeText(t) = before

\* the values of ?before=: unset, "all", a text that does not parse, and
\* the seconds up to the one after the last of the clock
BeforeInputs ==
    {"", "all", "yesterday"} \cup {BeforeText(t) : t \in 0..(MaxTime + 1)}

\* a selection with "ts <= ?" in place of "ts < ?"
EventsSelectedInclusive(evs, before) ==
    IF before \in {"", "all"} THEN 1..Len(evs)
    ELSE {i \in 1..Len(evs) : evs[i].ts <= ParseBefore(before)}

\* the rows (by rowid) that the query of `before` selects among
EventsSelected(evs, before) ==
    IF before \in {"", "all"} THEN 1..Len(evs)
    ELSE {i \in 1..Len(evs) : evs[i].ts < ParseBefore(before)}

EventsLimit(evs, before) ==
    IF before = "all" THEN Len(evs) ELSE PageLimit

\* order by ts desc limit k, followed by sort.Slice on Timestamp: neither
\* fixes the order of rows of equal ts, nor which of them the limit keeps
RECURSIVE OrderByTsDesc(_, _, _)
OrderByTsDesc(evs, I, k) ==
    IF k = 0 \/ I = {} THEN {<<>>}
    ELSE LET top == {i \in I : \A j \in I : evs[j].ts <= evs[i].ts}
         IN UNION {{<<i>> \o rest : rest \in OrderByTsDesc(evs, I \ {i}, k - 1)}
                     : i \in top}

EventStruct(ev) ==
    [Event |-> ev.event, Email |-> ev.email, Value |-> ev.value,
     Timestamp |-> ev.ts]

\* the listings that the handler can send for `before`
EventsListings(evs, before) ==
    {[n \in 1..Len(l) |-> EventStruct(evs[l[n]])] :
        l \in OrderByTsDesc(evs, EventsSelected(evs, before),
                            EventsLimit(evs, before))}

EventsBadRequest(before) ==
    before \notin {"", "all"} /\ ~ParseBeforeOk(before)

EventsGet(before) ==
    /\ IF EventsBadRequest(before)
       THEN resp' = Response("EventsGet", 400, NoBody)
       ELSE \E l \in EventsListings(events, before) :
                resp' = Response("EventsGet", 200, [Events |-> l])
    /\ UNCHANGED <<tables, now>>

\* DELETE /events: the listing is sent, then the log is cleared
EventsDelete(before) ==
    IF EventsBadRequest(before)
    THEN /\ resp' = Response("EventsDelete", 400, NoBody)
         /\ UNCHANGED <<tables, now>>
    ELSE \E l \in EventsListings(events, before) :
         /\ resp' = Response("EventsDelete", 200, [Events |-> l])
         /\ events' = EventsInsert(<<>>, "events log reset", "",
                                   ToString(Len(l)) \o " events cleared", now)
         /\ UNCHANGED <<totp, certs, settings, whitelist, now>>

---------------------------------------------------------------------------
(* settingsHandler: GET and PUT /settings *)

SettingsGet ==
    /\ resp' = IF LoadPanics(settings)
               THEN Response("SettingsGet", PanicStatus, NoBody)
               ELSE Response("SettingsGet", 200, loadSettings(settings, whitelist))
    /\ UNCHANGED <<tables, now>>

\* settings{}: what PopulateFromBody leaves of a body that is missing or
\* is not JSON
ZeroSettings ==
    [ServiceName |-> "", ClientLimit |-> GoInt(0),
     IssuedCertDuration |-> GoInt(0),
     WhitelistedDomains |-> <<>>, WhitelistedUsers |-> <<>>]

\* the lists of domains of the bodies: empty, one domain, two sorted, two
\* unsorted, and one with an empty domain
DomainLists ==
    {<<>>, <<"x.io">>, <<"x.io", "y.io">>, <<"y.io", "x.io">>, <<"", "x.io">>}

\* the bodies of PUT /settings: a snapshot with its own values, a snapshot
\* of the defaults with the lists of domains, a snapshot whose ClientLimit
\* has no 32 bits, and a body that PopulateFromBody rejects
SettingsBodies ==
    {[ServiceName |-> "Office VPN", ClientLimit |-> GoInt(1),
      IssuedCertDuration |-> GoInt(1),
      WhitelistedDomains |-> <<"x.io", "y.io">>,
      WhitelistedUsers |-> <<"b@x.io">>]}
      \cup {[ServiceName |-> DefaultServiceName,
             ClientLimit |-> GoInt(DefaultClientLimit),
             IssuedCertDuration |-> GoInt(DefaultCertDuration),
             WhitelistedDomains |-> l,
             WhitelistedUsers |-> <<>>] : l \in DomainLists}
      \cup {[ServiceName |-> "", ClientLimit |-> TooWide,
             IssuedCertDuration |-> GoInt(DefaultCertDuration),
             WhitelistedDomains |-> <<>>, WhitelistedUsers |-> <<>>]}
      \cup {Malformed}

\* PUT /settings: the handler answers 400 to a body it rejects and goes on
\* to store s; the answer to a body it accepts is what loadSettings then
\* reads, or a panic of loadSettings
SettingsPut(body) ==
    LET s == IF body = Malformed THEN ZeroSettings ELSE body IN
    /\ settings' = storeSettings(settings, s)
    /\ resp' = IF LoadPanics(settings')
               THEN Response("SettingsPut",
                             IF body = Malformed THEN 400 ELSE PanicStatus,
                             NoBody)
               ELSE Response("SettingsPut",
                             IF body = Malformed THEN 400 ELSE 200,
                             loadSettings(settings', whitelist))
    /\ UNCHANGED <<totp, certs, events, whitelist, now>>

---------------------------------------------------------------------------
(* whitelistHandler: GET /whitelist, PUT and DELETE /whitelist/<email> *)

WhitelistGet(e) ==
    /\ resp' = IF e # "" THEN Response("WhitelistGet", 400, NoBody)
               ELSE Response("WhitelistGet", 200,
                             [Users |-> WhitelistEmails(whitelist)])
    /\ UNCHANGED <<tables, now>>

\* an add that writes an event to the log
WhitelistPutLogged(e) ==
    IF e = ""
    THEN /\ resp' = Response("WhitelistPut", 400, NoBody)
         /\ UNCHANGED <<tables, now>>
    ELSE /\ whitelist' = WhitelistInsertOrReplace(whitelist, e)
         /\ events' = EventsInsert(events, "whitelisted", e, "", now)
         /\ resp' = IF LoadPanics(settings)
                    THEN Response("WhitelistPut", PanicStatus, NoBody)
                    ELSE Response("WhitelistPut", 200,
                                  [Users |-> LoadUsers(whitelist')])
         /\ UNCHANGED <<totp, certs, settings, now>>

WhitelistPut(e) ==
    IF e = ""
    THEN /\ resp' = Response("WhitelistPut", 400, NoBody)
         /\ UNCHANGED <<tables, now>>
    ELSE /\ whitelist' = WhitelistInsertOrReplace(whitelist, e)
         /\ resp' = IF LoadPanics(settings)
                    THEN Response("WhitelistPut", PanicStatus, NoBody)
                    ELSE Response("WhitelistPut", 200,
                                  [Users |-> LoadUsers(whitelist')])
         /\ UNCHANGED <<totp, certs, events, settings, now>>

WhitelistDelete(e) ==
    IF e = ""
    THEN /\ resp' = Response("WhitelistDelete", 400, NoBody)
         /\ UNCHANGED <<tables, now>>
    ELSE /\ whitelist' = WhitelistDeleteRow(whitelist, e)
         /\ resp' = IF LoadPanics(settings)
                    THEN Response("WhitelistDelete", PanicStatus, NoBody)
                    ELSE Response("WhitelistDelete", 200,
                                  [Users |-> LoadUsers(whitelist')])
         /\ UNCHANGED <<totp, certs, events, settings, now>>

---------------------------------------------------------------------------
(* Concurrent requests: net/http serves every request in a goroutine of   *)
(* its own, and every statement of a handler runs on a connection of its  *)
(* own, outside of any transaction.  A step is one SQL statement; what    *)
(* the handler does between two statements goes with the statement that   *)
(* follows.                                                               *)

\* the goroutines that serve requests
Procs == {"p", "q"}

\* a goroutine that serves no request
Idle == [op |-> "idle", pc |-> "", email |-> "", arg |-> "", days |-> 0,
         read |-> <<>>]

\* a goroutine at the statement pc of the handler op: email is the path
\* segment, arg the seed, the fingerprint or the description at hand, days
\* the IssuedCertDuration that was loaded, read what the select returned
InFlight(op, pc, email, arg, days, read) ==
    [op |-> op, pc |-> pc, email |-> email, arg |-> arg, days |-> days,
     read |-> read]

At(p, op, pc) == inflight[p].op = op /\ inflight[p].pc = pc

Goto(p, pc) == inflight' = [inflight EXCEPT ![p].pc = pc]

Done(p) == inflight' = [inflight EXCEPT ![p] = Idle]

\* PUT /user/<email>, up to its first write: loadSettings and
\* totp.Generate
UserPutLoad(p, e, seed) ==
    /\ inflight[p] = Idle
    /\ IF LoadPanics(settings)
       THEN /\ resp' = Response("UserPut", PanicStatus, NoBody)
            /\ UNCHANGED inflight
       ELSE /\ inflight' = [inflight EXCEPT
                              ![p] = InFlight("UserPut", "totp", e, seed, 0, <<>>)]
            /\ UNCHANGED resp
    /\ UNCHANGED <<tables, now, audit>>

\* insert or replace into totp
UserPutTotp(p) ==
    /\ At(p, "UserPut", "totp")
    /\ totp' = TotpInsertOrReplace(totp, inflight[p].email, inflight[p].arg, now)
    /\ Goto(p, "events")
    /\ UNCHANGED <<certs, events, settings, whitelist, now, resp, audit>>

\* insert into events, and the answer
UserPutEvent(p) ==
    /\ At(p, "UserPut", "events")
    /\ events' = EventsInsert(events, "TOTP set", inflight[p].email, "", now)
    /\ resp' = Response("UserPut", 200,
                        [Email |-> inflight[p].email, TOTPURL |-> inflight[p].arg])
    /\ Done(p)
    /\ UNCHANGED <<totp, certs, settings, whitelist, now, audit>>

\* DELETE /user/<email>: select fingerprint from certs where email=?
UserDeleteSelect(p, e) ==
    /\ inflight[p] = Idle
    /\ LET fps == UserFingerprints(certs, e) IN
       inflight' = [inflight EXCEPT
                      ![p] = InFlight("UserDelete",
                                      IF Len(fps) > 0 THEN "certs" ELSE "totp",
                                      e, "", 0, fps)]
    /\ UNCHANGED <<tables, now, resp, audit>>

\* update certs set revoked=datetime('now') where email=?
UserDeleteRevoke(p) ==
    /\ At(p, "UserDelete", "certs")
    /\ certs' = CertsRevokeByEmail(certs, inflight[p].email, now)
    /\ Goto(p, "totp")
    /\ UNCHANGED <<totp, events, settings, whitelist, now, resp, audit>>

\* delete from totp where email=?
UserDeleteTotp(p) ==
    /\ At(p, "UserDelete", "totp")
    /\ totp' = TotpDelete(totp, inflight[p].email)
    /\ Goto(p, "events")
    /\ UNCHANGED <<certs, events, settings, whitelist, now, resp, audit>>

\* insert into events, and the answer
UserDeleteEvent(p) ==
    /\ At(p, "UserDelete", "events")
    /\ events' = EventsInsert(events, "user deleted", inflight[p].email,
                              ToString(Len(inflight[p].read)) \o " certs revoked",
                              now)
    /\ resp' = Response("UserDelete", 200, [RevokedCerts |-> inflight[p].read])
    /\ Done(p)
    /\ UNCHANGED <<totp, certs, settings, whitelist, now, audit>>

\* POST /certs/<email> with a body that is accepted: select email from
\* totp where email=?
CertsPostSelect(p, e, d) ==
    /\ inflight[p] = Idle
    /\ IF TotpByEmail(totp, e) = {}
       THEN /\ resp' = Response("CertsPost", 404, NoBody)
            /\ UNCHANGED inflight
       ELSE IF Cardinality(TotpByEmail(totp, e)) > 1
       THEN /\ resp' = Response("CertsPost", PanicStatus, NoBody)
            /\ UNCHANGED inflight
       ELSE /\ inflight' = [inflight EXCEPT
                              ![p] = InFlight("CertsPost", "settings", e, d, 0, <<>>)]
            /\ UNCHANGED resp
    /\ UNCHANGED <<tables, now, audit>>

\* loadSettings, and the collaborators: fp is the fingerprint of the
\* signed certificate
CertsPostLoad(p, fail, fp) ==
    /\ At(p, "CertsPost", "settings")
    /\ IF LoadPanics(settings) \/ fail # "none"
       THEN /\ resp' = Response("CertsPost", PanicStatus, NoBody)
            /\ Done(p)
       ELSE /\ inflight' = [inflight EXCEPT
                              ![p].pc = "certs",
                              ![p].days = LoadCertDuration(settings),
                              ![p].read = <<fp>>]
            /\ UNCHANGED resp
    /\ UNCHANGED <<tables, now, audit>>

\* insert into certs
CertsPostInsert(p) ==
    /\ At(p, "CertsPost", "certs")
    /\ IF CertsInsertConflicts(certs, inflight[p].read[1])
       THEN /\ resp' = Response("CertsPost", PanicStatus, NoBody)
            /\ Done(p)
            /\ UNCHANGED certs
       ELSE /\ certs' = CertsInsert(certs, inflight[p].email, inflight[p].read[1],
                                    inflight[p].arg, now, inflight[p].days)
            /\ Goto(p, "events")
            /\ UNCHANGED resp
    /\ UNCHANGED <<totp, events, settings, whitelist, now, audit>>

\* insert into events, and the answer
CertsPostEvent(p) ==
    /\ At(p, "CertsPost", "events")
    /\ events' = EventsInsert(events, "certificate issued", inflight[p].email,
                              inflight[p].read[1] \o " - " \o inflight[p].arg, now)
    /\ resp' = Response("CertsPost", 201, [OVPNDataURL |-> inflight[p].read[1]])
    /\ Done(p)
    /\ UNCHANGED <<totp, certs, settings, whitelist, now, audit>>

\* DELETE /events?before=all: the select, and the listing sent
EventsDeleteSelect(p) ==
    /\ inflight[p] = Idle
    /\ \E l \in EventsListings(events, "all") :
          /\ resp' = Response("EventsDelete", 200, [Events |-> l])
          /\ inflight' = [inflight EXCEPT
                            ![p] = InFlight("EventsDelete", "delete", "", "", 0, l)]
          /\ audit' = [audit EXCEPT !.listed = Len(events)]
    /\ UNCHANGED <<tables, now>>

\* delete from events
EventsDeleteRows(p) ==
    /\ At(p, "EventsDelete", "delete")
    /\ events' = <<>>
    /\ audit' = [listed |-> 0,
                 lost |-> audit.lost + Len(events) - audit.listed]
    /\ Goto(p, "events")
    /\ UNCHANGED <<totp, certs, settings, whitelist, now, resp>>

\* insert into events: the count is the length of the listing
EventsDeleteReset(p) ==
    /\ At(p, "EventsDelete", "events")
    /\ events' = EventsInsert(events, "events log reset", "",
                              ToString(Len(inflight[p].read)) \o " events cleared",
                              now)
    /\ Done(p)
    /\ UNCHANGED <<totp, certs, settings, whitelist, now, resp, audit>>

\* writeDatabaseByQuery panics on the error of Exec: the statement at hand
\* writes nothing and the handler ends; the panic handler answers, unless
\* the answer was sent before
WriteFails(p) ==
    /\ inflight[p].pc \in {"totp", "certs", "delete", "events"}
    /\ resp' = IF inflight[p].op = "EventsDelete" THEN resp
               ELSE Response(inflight[p].op, PanicStatus, NoBody)
    /\ Done(p)
    /\ UNCHANGED <<tables, now, audit>>

---------------------------------------------------------------------------
(* The clock and the specification *)

\* a second passes, on a clock that runs to max
TickTo(max) ==
    /\ now < max
    /\ now' = now + 1
    /\ UNCHANGED <<tables, resp, inflight, audit>>

\* a second passes
Tick == TickTo(MaxTime)

\* the database as the deployment creates it: five empty tables
Init ==
    /\ totp = {}
    /\ certs = <<>>
    /\ events = <<>>
    /\ settings = {}
    /\ whitelist = {}
    /\ now = 0
    /\ resp = Response("none", 0, NoBody)
    /\ inflight = [p \in Procs |-> Idle]
    /\ audit = [listed |-> 0, lost |-> 0]

\* the bound on the events table, for the step taken
LogBound == Len(events') <= MaxEvents

\* a request that is served to completion while no other is in flight
Sequential == UNCHANGED <<inflight, audit>>

\* a well-formed body of POST /certs/<email>
IssueBody(e, d) == [Email |-> e, Description |-> d]

\* the requests that write to totp, certs and events, well-formed and with
\* the collaborators of POST /certs/<email> at work
Next ==
    \/ \E e \in Emails :
          UserPut(e, FreshSeed(totp, e)) /\ LogBound /\ Sequential
    \/ \E e \in Emails : UserDelete(e) /\ LogBound /\ Sequential
    \/ \E e \in Emails, d \in Descriptions, fp \in Fingerprints :
          CertsPost(e, IssueBody(e, d), "none", fp) /\ LogBound /\ Sequential
    \/ \E fp \in Fingerprints : CertDelete(fp) /\ LogBound /\ Sequential
    \/ Tick

\* requests served one at a time, each to completion
Spec == Init /\ [][Next]_vars

\* the same with the requests that only read, and with the requests that
\* POST /certs/<email> rejects
NextReads ==
    \/ Next
    \/ UsersGet /\ Sequential
    \/ \E e \in Emails : UserGet(e) /\ Sequential
    \/ \E e \in EmailInputs : CertsGet(e) /\ Sequential
    \/ \E fp \in Fingerprints : CertGet(fp) /\ Sequential
    \/ \E e \in EmailInputs, body \in IssueBodies, fail \in IssueFailures,
          fp \in Fingerprints :
          CertsPost(e, body, fail, fp) /\ LogBound /\ Sequential

SpecReads == Init /\ [][NextReads]_vars

\* the requests of a single user, over a longer log
OneUser == "a@x.io"

LongLogBound == Len(events') <= MaxEventsOneUser

NextOneUser ==
    \/ UserPut(OneUser, FreshSeed(totp, OneUser)) /\ LongLogBound /\ Sequential
    \/ UserDelete(OneUser) /\ LongLogBound /\ Sequential
    \/ \E d \in Descriptions, fp \in Fingerprints :
          CertsPost(OneUser, IssueBody(OneUser, d), "none", fp)
            /\ LongLogBound /\ Sequential
    \/ \E fp \in Fingerprints : CertDelete(fp) /\ LongLogBound /\ Sequential
    \/ Tick

SpecOneUser == Init /\ [][NextOneUser]_vars

\* the requests of one user, with every body that POST /certs/<email> can
\* receive for the two emails, the collaborators at work: b@x.io is never
\* enrolled
NextIssue ==
    \/ UserPut(OneUser, FreshSeed(totp, OneUser)) /\ LogBound /\ Sequential
    \/ UserDelete(OneUser) /\ LogBound /\ Sequential
    \/ \E e \in Emails, body \in IssueBodies, fp \in Fingerprints :
          CertsPost(e, body, "none", fp) /\ LogBound /\ Sequential
    \/ \E fp \in Fingerprints : CertDelete(fp) /\ LogBound /\ Sequential
    \/ Tick

SpecIssue == Init /\ [][NextIssue]_vars

\* the audit log of one user's enrollments, listed and cleared with every
\* value of ?before=
NextEvents ==
    \/ UserPut(OneUser, FreshSeed(totp, OneUser)) /\ LogBound /\ Sequential
    \/ \E before \in BeforeInputs : EventsGet(before) /\ Sequential
    \/ \E before \in BeforeInputs : EventsDelete(before) /\ Sequential
    \/ Tick

SpecEvents == Init /\ [][NextEvents]_vars

\* the number of events of the second t
SameSecond(evs, t) == Cardinality({i \in 1..Len(evs) : evs[i].ts = t})

\* the schedule of the paging specification: a burst of at most MaxBurst
\* enrollments in the first second, then at most one a second
PagingBound ==
    /\ Len(events') <= MaxEventsPaging
    /\ SameSecond(events', now) <= (IF now = 0 THEN MaxBurst ELSE 1)

\* the values of ?before= of the paging specification: unset, "all", the
\* second after the burst and the last second of the clock
PagingBefores == {"", "all", BeforeText(1), BeforeText(MaxEventsPaging)}

\* a log that grows past a page: enrollments of the two users in the
\* first second and of one user later, a clock that waits for an event in
\* every second, and the listings of the log
NextPaging ==
    \/ \E e \in Emails :
          /\ e = OneUser \/ now = 0
          /\ UserPut(e, FreshSeed(totp, e))
          /\ PagingBound /\ Sequential
    \/ \E before \in PagingBefores : EventsGet(before) /\ Sequential
    \/ TickTo(MaxEventsPaging) /\ SameSecond(events, now) > 0

SpecPaging == Init /\ [][NextPaging]_vars

\* the administration of the settings and of the whitelist, next to the
\* enrolment of one user that fills the log
NextAdmin ==
    \/ \E e \in EmailInputs : WhitelistGet(e) /\ Sequential
    \/ \E e \in EmailInputs : WhitelistPut(e) /\ Sequential
    \/ \E e \in EmailInputs : WhitelistDelete(e) /\ Sequential
    \/ SettingsGet /\ Sequential
    \/ \E body \in SettingsBodies : SettingsPut(body) /\ Sequential
    \/ UserPut(OneUser, FreshSeed(totp, OneUser)) /\ LogBound /\ Sequential
    \/ Tick

SpecAdmin == Init /\ [][NextAdmin]_vars

\* the requests in flight that have an event to write
Writers == {p \in Procs : inflight[p] # Idle}

\* a request begins while the log has room for its event
Room == Len(events) + Cardinality(Writers) < MaxEvents

\* concurrent enrolments and removals of the two users within one second
\* of the clock, interleaved statement by statement; Exec fails at will
NextEnroll ==
    \/ \E p \in Procs, e \in Emails, seed \in Seeds :
          UserPutLoad(p, e, seed) /\ Room
    \/ \E p \in Procs : UserPutTotp(p)
    \/ \E p \in Procs : UserPutEvent(p)
    \/ \E p \in Procs, e \in Emails : UserDeleteSelect(p, e) /\ Room
    \/ \E p \in Procs : UserDeleteTotp(p)
    \/ \E p \in Procs : UserDeleteEvent(p)
    \/ \E p \in Procs : WriteFails(p)

SpecEnroll == Init /\ [][NextEnroll]_vars

\* concurrent enrolments, removals and certificates of one user within
\* one second of the clock, interleaved statement by statement; Exec and
\* the collaborators fail at will
NextIssueRace ==
    \/ \E p \in Procs : UserPutLoad(p, OneUser, FreshSeed(totp, OneUser)) /\ Room
    \/ \E p \in Procs : UserPutTotp(p)
    \/ \E p \in Procs : UserPutEvent(p)
    \/ \E p \in Procs : UserDeleteSelect(p, OneUser) /\ Room
    \/ \E p \in Procs : UserDeleteRevoke(p)
    \/ \E p \in Procs : UserDeleteTotp(p)
    \/ \E p \in Procs : UserDeleteEvent(p)
    \/ \E p \in Procs : CertsPostSelect(p, OneUser, "laptop") /\ Room
    \/ \E p \in Procs, fail \in IssueFailures, fp \in Fingerprints :
          CertsPostLoad(p, fail, fp)
    \/ \E p \in Procs : CertsPostInsert(p)
    \/ \E p \in Procs : CertsPostEvent(p)
    \/ \E p \in Procs : WriteFails(p)

SpecIssueRace == Init /\ [][NextIssueRace]_vars

\* the clearing of the log, concurrent with the enrolments of one user and
\* with itself within one second of the clock, interleaved statement by
\* statement; Exec fails at will
NextClearRace ==
    \/ \E p \in Procs : UserPutLoad(p, OneUser, FreshSeed(totp, OneUser)) /\ Room
    \/ \E p \in Procs : UserPutTotp(p)
    \/ \E p \in Procs : UserPutEvent(p)
    \/ \E p \in Procs : EventsDeleteSelect(p) /\ Room /\ audit.lost = 0
    \/ \E p \in Procs : EventsDeleteRows(p)
    \/ \E p \in Procs : EventsDeleteReset(p)
    \/ \E p \in Procs : WriteFails(p)

SpecClearRace == Init /\ [][NextClearRace]_vars

---------------------------------------------------------------------------
(* Properties *)

\* the rows of the log that record the event `event` with the value `value`
EventRows(event, value) ==
    {i \in 1..Len(events) : events[i].event = event /\ events[i].value = value}

LastEvent == events[Len(events)]

\* C1: two calls of Revoke(fp) on an issued certificate, with no Clear in
\* between, leave exactly one "certificate revoked" event for fp in the
\* log: the second call appends none.  (No specification of this section
\* clears the log, and a fingerprint is never stored twice.)
C1_RevokeTwiceOneEvent ==
    \A fp \in Fingerprints :
        Cardinality(EventRows("certificate revoked", fp)) <= 1

ActiveRows(cs, e) == SelectSeq(cs, LAMBDA c : c.email = e /\ c.revoked = Null)

\* C3: Remove(email) returns exactly N fingerprints, N the number of
\* certificates of the email that were unrevoked right before the call,
\* for every mix of active and revoked certificates.  (Stated of the
\* removal of an enrolled email.)
C3_RemoveReturnsActive ==
    [][\A e \in Emails :
         (UserDelete(e) /\ TotpByEmail(totp, e) # {})
           => Len(resp'.body.RevokedCerts) = Len(ActiveRows(certs, e))]_vars

\* C4: after Remove(email), Describe(email) is NotFound and Describe(fp) of
\* every certificate that the email owned succeeds and reports it revoked,
\* with the same owner.
C4_RemoveThenDescribe ==
    [][\A e \in Emails :
         UserDelete(e)
           => /\ UserGetResult(totp', certs', e).status = 404
              /\ \A i \in 1..Len(certs) :
                    certs[i].email = e
                      => LET r == CertGetResult(certs', certs[i].fingerprint) IN
                         /\ r.status = 200
                         /\ r.body.Fingerprint = certs[i].fingerprint
                         /\ r.body.Revoked # NoTime
                         /\ r.body.Email = e]_vars

\* C4, reached: the last request removed an identity that owned two
\* certificates, one of them revoked before the removal
C4_Witness ==
    /\ resp.op = "UserDelete"
    /\ resp.status = 200
    /\ Len(resp.body.RevokedCerts) = 2
    /\ LastEvent.event = "user deleted"
    /\ \E i \in 1..Len(events) : events[i].event = "certificate revoked"
    /\ TotpByEmail(totp, LastEvent.email) = {}

\* the emails whose identity is gone and that still own certificates
Orphaned(e) == TotpByEmail(totp, e) = {} /\ Len(CertsByEmail(certs, e)) > 0

\* the fingerprints of a list of cert structs
FingerprintsOf(l) == {l[i].Fingerprint : i \in 1..Len(l)}

RowFingerprints(cs) == {cs[i].fingerprint : i \in 1..Len(cs)}

\* C5: for an email whose identity was removed and that still owns
\* certificate rows, ListAll() has no group for the email, and
\* ListForUser(email) returns those certificates, not NotFound.
C5_OrphansListed ==
    \A e \in Emails :
        Orphaned(e)
          => /\ CertsGetAllResp.status = 200
                  => \A i \in 1..Len(CertsGetAllResp.body.Certs) :
                         CertsGetAllResp.body.Certs[i].Email # e
             /\ CertsGetUserResp(e).status = 200
             /\ FingerprintsOf(CertsGetUserResp(e).body.ActiveCerts)
                  \cup FingerprintsOf(CertsGetUserResp(e).body.RevokedCerts)
                  = RowFingerprints(CertsByEmail(certs, e))

\* the emails that have an identity row and a certificate row
JoinedEmails == {t.email : t \in {r \in totp : Len(CertsByEmail(certs, r.email)) > 0}}

\* C6: ListAll() answers 200 in every state, with one group per email that
\* has an identity row joined to its certificates, in ascending order of
\* email, the active list of a group holding the email's certificates with
\* a null revoked timestamp and the revoked list the others.
C6_ListAll ==
    /\ CertsGetAllResp.status = 200
    /\ LET groups == CertsGetAllResp.body.Certs IN
       /\ [i \in 1..Len(groups) |-> groups[i].Email] = SortedEmails(JoinedEmails)
       /\ \A i \in 1..Len(groups) :
            /\ FingerprintsOf(groups[i].ActiveCerts)
                 = RowFingerprints(ActiveRows(certs, groups[i].Email))
            /\ FingerprintsOf(groups[i].RevokedCerts)
                 = RowFingerprints(CertsByEmail(certs, groups[i].Email))
                     \ RowFingerprints(ActiveRows(certs, groups[i].Email))

\* a list of cert structs holds each row of rows once, and nothing else
HoldsEachOnce(l, rows) ==
    /\ Len(l) = Len(rows)
    /\ \A i \in 1..Len(rows) :
          Cardinality({n \in 1..Len(l) : l[n] = CertStruct(rows[i])}) = 1

RevokedRows(cs, e) == SelectSeq(cs, LAMBDA c : c.email = e /\ c.revoked # Null)

\* the two listings of the certificates of e, read from the totp rows t and
\* the certs rows cs
ListForUser(t, cs, e) == {UserGetResult(t, cs, e), CertsGetUserResult(t, cs, e)}

\* C7: for an enrolled email, ListForUser(email), by GET /user/<email> and
\* by GET /certs/<email>, returns every certificate row of the email once,
\* in the active list iff its revoked timestamp is null and in the revoked
\* list otherwise; a successful Issue(email, d) adds exactly one
\* certificate to the active list, and its description is d.
C7_ListForUser ==
    [][/\ \A e \in Emails :
            TotpByEmail(totp', e) # {}
              => \A r \in ListForUser(totp', certs', e) :
                    /\ r.status = 200
                    /\ HoldsEachOnce(r.body.ActiveCerts, ActiveRows(certs', e))
                    /\ HoldsEachOnce(r.body.RevokedCerts, RevokedRows(certs', e))
       /\ (resp'.op = "CertsPost" /\ resp'.status = 201)
            => \A e \in Emails, d \in Descriptions :
                 CertsPost(e, IssueBody(e, d), "none", resp'.body.OVPNDataURL)
                   => LET fp     == resp'.body.OVPNDataURL
                          before == UserGetResult(totp, certs, e)
                          after  == UserGetResult(totp', certs', e)
                          added  == {n \in 1..Len(after.body.ActiveCerts) :
                                       after.body.ActiveCerts[n].Fingerprint = fp}
                      IN /\ before.status = 200
                         /\ after.status = 200
                         /\ Len(after.body.ActiveCerts)
                              = Len(before.body.ActiveCerts) + 1
                         /\ after.body.RevokedCerts = before.body.RevokedCerts
                         /\ Range(before.body.ActiveCerts)
                              \subseteq Range(after.body.ActiveCerts)
                         /\ Cardinality(added) = 1
                         /\ \A n \in added :
                               after.body.ActiveCerts[n].Description = d
                         /\ fp \notin FingerprintsOf(before.body.ActiveCerts)
                         /\ CertsGetUserResult(totp', certs', e).body
                              = after.body]_vars

\* C7, reached: an Issue of "phone" was the last request, for a user who
\* then has two active certificates, "laptop" and "phone", while the other
\* user has none
C7_Witness ==
    /\ resp.op = "CertsPost"
    /\ resp.status = 201
    /\ LastEvent.event = "certificate issued"
    /\ LastEvent.value = resp.body.OVPNDataURL \o " - phone"
    /\ LET r == CertsGetUserResp(LastEvent.email) IN
       /\ r.status = 200
       /\ Len(r.body.ActiveCerts) = 2
       /\ r.body.ActiveCerts[1].Description = "laptop"
       /\ r.body.ActiveCerts[2].Description = "phone"
       /\ r.body.ActiveCerts[2].Fingerprint = resp.body.OVPNDataURL
       /\ r.body.RevokedCerts = <<>>

\* C8: right after a successful Issue(email, d) that produced fp, the first
\* entry of the audit List() is the "certificate issued" event of email
\* whose value names fp, whatever the timestamps, also when the event of
\* the EnrollOrRotate before it has the same timestamp.
C8_IssueListedFirst ==
    [][\A e \in Emails, d \in Descriptions, fp \in Fingerprints :
         (CertsPost(e, IssueBody(e, d), "none", fp) /\ resp'.status = 201)
           => \A l \in EventsListings(events', "") :
                 /\ Len(l) > 0
                 /\ l[1].Event = "certificate issued"
                 /\ l[1].Email = e
                 /\ l[1].Value = fp \o " - " \o d]_vars

\* C9: after EnrollOrRotate(e) of an email that has no identity row and
\* owns no certificate row, Describe(e) succeeds with empty active and
\* revoked lists.
C9_EnrollThenDescribe ==
    [][\A e \in Emails :
         (UserPut(e, FreshSeed(totp, e)) /\ TotpByEmail(totp, e) = {}
                                         /\ Len(CertsByEmail(certs, e)) = 0)
           => LET r == UserGetResult(totp', certs', e) IN
              /\ r.status = 200
              /\ r.body.Email = e
              /\ r.body.ActiveCerts = <<>>
              /\ r.body.RevokedCerts = <<>>]_vars

\* C9, reached: the last request enrolled an email for the first time,
\* while the other email owns a certificate
C9_Witness ==
    /\ resp.op = "UserPut"
    /\ resp.status = 200
    /\ Len(certs) > 0
    /\ Len(CertsByEmail(certs, resp.body.Email)) = 0
    /\ Cardinality({i \in 1..Len(events) : events[i].email = resp.body.Email}) = 1
    /\ UserGetResp(resp.body.Email).status = 200

\* C10: EnrollOrRotate(email) of an email that has an identity row keeps
\* the created timestamp that Describe(email) reports.
C10_CreatedPreserved ==
    [][\A e \in Emails :
         (UserPut(e, FreshSeed(totp, e)) /\ TotpByEmail(totp, e) # {})
           => /\ UserGetResult(totp', certs', e).status = 200
              /\ UserGetResult(totp', certs', e).body.Created
                   = UserGetResult(totp, certs, e).body.Created]_vars

\* C11: DELETE /user/<email> of an email that has no identity row answers
\* 404 and leaves the identities, the certificates and the audit log as
\* they were.
C11_RemoveAbsentNotFound ==
    [][\A e \in Emails :
         (UserDelete(e) /\ TotpByEmail(totp, e) = {})
           => /\ resp'.status = 404
              /\ totp' = totp
              /\ certs' = certs
              /\ events' = events]_vars

\* C12: Issue(email, description) with a body that names the email of the
\* path is rejected with 400 when the description is empty, and with 404
\* when the description is not empty and the email has no identity row; in
\* both cases no table changes: no certificate row, no audit event.
C12_IssueRejected ==
    [][resp'.op = "CertsPost"
         => \A e \in Emails, body \in IssueBodies \ {Malformed},
               fp \in Fingerprints :
              (CertsPost(e, body, "none", fp) /\ body.Email = e)
                => /\ body.Description = ""
                        => resp'.status = 400 /\ tables' = tables
                   /\ (body.Description # "" /\ TotpByEmail(totp, e) = {})
                        => resp'.status = 404 /\ tables' = tables]_vars

\* C12, reached: the last request was an Issue answered 404, for an email
\* without identity row, while the other email is enrolled and owns a
\* certificate
C12_Witness ==
    /\ resp.op = "CertsPost"
    /\ resp.status = 404
    /\ totp # {}
    /\ Len(certs) > 0
    /\ LastEvent.event = "certificate issued"

\* C13: after a Clear() that the handler accepts, whatever its `before`,
\* the log holds exactly one event, "events log reset", and the count in
\* its value is the number of events that Clear deleted: all the events
\* of the log before the call.
C13_ClearCountsDeleted ==
    [][\A before \in BeforeInputs :
         (EventsDelete(before) /\ ~EventsBadRequest(before))
           => /\ Len(events') = 1
              /\ events'[1].event = "events log reset"
              /\ events'[1].value
                   = ToString(Len(events)) \o " events cleared"]_vars

\* C14: the listing that an accepted Clear() returns holds every event
\* that the call deletes, as many times as the log held it.
C14_ClearReturnsDeleted ==
    [][\A before \in BeforeInputs :
         (EventsDelete(before) /\ ~EventsBadRequest(before))
           => /\ Len(resp'.body.Events) = Len(events)
              /\ \A i \in 1..Len(events) :
                    Cardinality({n \in 1..Len(resp'.body.Events) :
                                   resp'.body.Events[n] = EventStruct(events[i])})
                      = Cardinality({j \in 1..Len(events) :
                                       events[j] = events[i]})]_vars

\* the number of entries of the listing l that equal x
Count(l, x) == Cardinality({n \in 1..Len(l) : l[n] = x})

\* the events (by rowid) that List(before) is to choose among: all of them
\* when before is unset or "all", those strictly older than T when before
\* is the text of the second T
OlderThan(before) ==
    IF before \in {"", "all"} THEN 1..Len(events)
    ELSE {i \in 1..Len(events) :
            \E t \in BeforeTimes : BeforeText(t) = before /\ events[i].ts < t}

\* C15: every listing that List(before) can send is in descending order
\* of timestamp; it holds every event that before admits when before is
\* "all" or when these are at most 25, and otherwise 25 of them such that
\* no event left out is more recent than a listed one; it holds nothing
\* else, and no event more often than the log does.
C15_ListIsReference ==
    \A before \in PagingBefores :
      \A l \in EventsListings(events, before) :
        LET sel == OlderThan(before)
            ev  == [i \in 1..Len(events) |-> EventStruct(events[i])]
        IN /\ \A n \in 1..(Len(l) - 1) : l[n].Timestamp >= l[n + 1].Timestamp
           /\ Len(l) = IF before = "all" \/ Cardinality(sel) <= 25
                       THEN Cardinality(sel) ELSE 25
           /\ \A n \in 1..Len(l) :
                 Count(l, l[n]) <= Cardinality({i \in sel : ev[i] = l[n]})
           /\ \A i \in sel :
                 Count(l, ev[i]) < Cardinality({j \in sel : ev[j] = ev[i]})
                   => \A n \in 1..Len(l) : l[n].Timestamp >= events[i].ts

\* C15, reached: the last request listed a page of 25 events of a log of
\* 26, whose two oldest events have the same timestamp and differ
C15_Witness ==
    /\ resp.op = "EventsGet"
    /\ resp.status = 200
    /\ Len(events) = 26
    /\ Len(resp.body.Events) = 25
    /\ events[1].ts = events[2].ts
    /\ events[1].email # events[2].email
    /\ resp.body.Events[25].Email = events[1].email

Members(wl) == {r.email : r \in wl}

C17_WhitelistFrame ==
    [][\A e \in EmailInputs :
          WhitelistPut(e) \/ WhitelistDelete(e) =>
              /\ events' = events
              /\ totp' = totp
              /\ certs' = certs
              /\ settings' = settings]_vars

\* an email was added to the whitelist of a service with an identity, a
\* log and stored settings
C17_Witness ==
    /\ resp.op = "WhitelistPut"
    /\ resp.status = 200
    /\ Members(whitelist) = {"a@x.io"}
    /\ totp # {}
    /\ Len(events) = 1
    /\ settings # {}

\* a snapshot whose WhitelistedDomains is a sorted set of non-empty
\* strings without a space
ValidSettings(s) ==
    /\ s # Malformed
    /\ \A i \in 1..Len(s.WhitelistedDomains) : s.WhitelistedDomains[i] # ""
    /\ \A i \in 1..(Len(s.WhitelistedDomains) - 1) :
          DomainRank(s.WhitelistedDomains[i])
            < DomainRank(s.WhitelistedDomains[i + 1])

\* C18: for every valid snapshot s, loadSettings directly after
\* storeSettings(s) returns the ServiceName, ClientLimit,
\* IssuedCertDuration and WhitelistedDomains of s and the emails of the
\* whitelist as WhitelistedUsers, and the store leaves the whitelist as it
\* is.
C18_LoadAfterStore ==
    [][\A s \in SettingsBodies :
          SettingsPut(s) /\ ValidSettings(s) =>
              /\ whitelist' = whitelist
              /\ ~LoadPanics(settings')
              /\ LET l == loadSettings(settings', whitelist') IN
                    /\ l.ServiceName = s.ServiceName
                    /\ l.ClientLimit = s.ClientLimit
                    /\ l.IssuedCertDuration = s.IssuedCertDuration
                    /\ l.WhitelistedDomains = s.WhitelistedDomains
                    /\ l.WhitelistedUsers = WhitelistEmails(whitelist')]_vars

\* C19: PUT /settings with a body that is missing or is not JSON is
\* answered with 400 and leaves the stored settings as they are:
\* loadSettings returns after the request what it returned before it.
C19_RejectedPutKeepsSettings ==
    [][SettingsPut(Malformed) =>
          /\ resp'.status = 400
          /\ LoadPanics(settings') = LoadPanics(settings)
          /\ ~LoadPanics(settings) =>
                loadSettings(settings', whitelist')
                  = loadSettings(settings, whitelist)]_vars

\* C20: once the revoked timestamp of a certificate is set, no request
\* changes it: a repeated DELETE /cert/<fingerprint> and a DELETE
\* /user/<email> of its owner leave it at its first value.
C20_RevokedStays ==
    [][\A i \in 1..Len(certs) :
          certs[i].revoked # Null =>
              /\ i <= Len(certs')
              /\ certs'[i].fingerprint = certs[i].fingerprint
              /\ certs'[i].revoked = certs[i].revoked]_vars

\* C21: in every state that concurrent enrolments and removals of the same
\* or of different emails reach, totp holds at most one row for an email,
\* and GET /user/<email> does not answer 500.
C21_OneIdentityPerEmail ==
    \A e \in Emails :
        /\ Cardinality(TotpByEmail(totp, e)) <= 1
        /\ UserGetResult(totp, certs, e).status # PanicStatus

\* two enrolments of one email in flight, with two seeds: one has written
\* its row, the other is about to
C21_Witness ==
    /\ At("p", "UserPut", "events")
    /\ At("q", "UserPut", "totp")
    /\ inflight["p"].email = inflight["q"].email
    /\ inflight["p"].arg # inflight["q"].arg
    /\ \E r \in totp : r.email = inflight["p"].email /\ r.seed = inflight["p"].arg

\* C22: the fingerprints of the certs rows are unique, and a POST
\* /certs/<email> whose signed certificate has a stored fingerprint fails:
\* it is answered with an error, the stored rows stay as they are, and the
\* log gets no event.
C22_FingerprintUnique ==
    [][/\ \A i, j \in 1..Len(certs') :
             certs'[i].fingerprint = certs'[j].fingerprint => i = j
       /\ resp'.op = "CertsPost" =>
             \A d \in Descriptions, fp \in Fingerprints :
                 /\ CertsPost(OneUser, IssueBody(OneUser, d), "none", fp)
                 /\ CertsInsertConflicts(certs, fp)
                 => /\ resp'.status \in {404, PanicStatus}
                    /\ certs' = certs
                    /\ events' = events]_vars

\* a POST /certs/<email> of an enrolled user has failed on the fingerprint
\* of a stored certificate
C22_Witness ==
    /\ resp.op = "CertsPost"
    /\ resp.status = PanicStatus
    /\ TotpByEmail(totp, OneUser) # {}
    /\ Len(certs) = 1
    /\ Cardinality(EventRows("certificate issued",
                              certs[1].fingerprint \o " - " \o certs[1].desc)) = 1

\* C23: with the requests served one at a time from an empty database,
\* every certificate that is not revoked belongs to an email that has a
\* totp row.
C23_ActiveCertHasIdentity ==
    \A i \in 1..Len(certs) :
        certs[i].revoked = Null => TotpByEmail(totp, certs[i].email) # {}

\* a user with a certificate was removed: the certificate is revoked and
\* its email has no totp row
C23_Witness ==
    /\ resp.op = "UserDelete"
    /\ resp.status = 200
    /\ Len(certs) = 1
    /\ certs[1].revoked # Null
    /\ resp.body.RevokedCerts = <<certs[1].fingerprint>>
    /\ TotpByEmail(totp, certs[1].email) = {}

\* C24: the removal of an identity is atomic for the requests that run
\* next to it: once every request has completed, no certificate that is
\* not revoked belongs to an email without a totp row.
C24_RemovalAtomic ==
    (\A p \in Procs : inflight[p] = Idle) =>
        \A e \in Emails :
            TotpByEmail(totp, e) = {} =>
                \A i \in 1..Len(certs) :
                    certs[i].email = e => certs[i].revoked # Null

\* the rows of the log that record the event `event`
EventsNamed(event) == {i \in 1..Len(events) : events[i].event = event}

\* C25: POST /certs/<email> is atomic for its callers: a request that
\* fails leaves neither a certs row nor a "certificate issued" event, a
\* request that succeeds leaves one of each.  Once every request has
\* completed, the log, which is not cleared, holds as many "certificate
\* issued" events as certs holds rows.
C25_IssueAtomic ==
    (\A p \in Procs : inflight[p] = Idle) =>
        Cardinality(EventsNamed("certificate issued")) = Len(certs)

\* GET /cert/<fingerprint> on the certs rows cs answers with a certificate
\* that is revoked
ReportsRevoked(cs, fp) ==
    LET r == CertGetResult(cs, fp) IN
    r.status = 200 /\ r.body.Revoked # NoTime

\* C26: a revocation is permanent and no certs row is removed: once GET
\* /cert/<fingerprint> has reported a certificate as revoked, it succeeds
\* and reports the certificate as revoked after every request that
\* follows.
C26_RevokedForever ==
    [][\A fp \in Fingerprints :
          ReportsRevoked(certs, fp) => ReportsRevoked(certs', fp)]_vars

\* the owner of a revoked certificate was removed and has enrolled again
C26_Witness ==
    /\ resp.op = "UserPut"
    /\ resp.status = 200
    /\ ReportsRevoked(certs, "f1")
    /\ TotpByEmail(totp, certs[1].email) # {}
    /\ EventsNamed("user deleted") # {}
    /\ LastEvent.event = "TOTP set"

\* the pages that a client reads from the log evs, the first with `before`
\* and each further one with the Timestamp of the last item of the page
\* before it, up to the page that is empty
RECURSIVE Pages(_, _)
Pages(evs, before) ==
    LET l == CHOOSE x \in EventsListings(evs, before) : TRUE IN
    IF l = <<>> THEN <<>>
    ELSE l \o Pages(evs, BeforeText(l[Len(l)].Timestamp))

\* C27: paging through a log at rest, from `before` unset and then with
\* the timestamp of the oldest item of each page, visits every event of
\* the log exactly once, also when events share a timestamp.
C27_PagingVisitsAll ==
    \A i \in 1..Len(events) :
        Count(Pages(events, ""), EventStruct(events[i]))
          = Cardinality({j \in 1..Len(events) : events[j] = events[i]})

\* C28: no event is lost when DELETE /events?before=all runs next to the
\* requests that write events: every event that was written is in the
\* listing that some DELETE /events has returned, or is in the log still.
\* No "delete from events" has deleted a row that no listing had returned.
C28_NoEventLost == audit.lost = 0

====
